---- MODULE Spec2Model ----
(***************************************************************************)
(* PageIndexNavigator.query of src/pageindex.py: the oracle-driven walk    *)
(* over a DocumentIndex, followed by answer synthesis.                     *)
(*                                                                         *)
(* Conventions.  An Optional value is None (the empty tuple) or Some(x)    *)
(* (a one-element tuple).  A confidence is kept in tenths (5 is 0.5).      *)
(* A formatted string is kept as the tuple of its parts, so that two       *)
(* format calls give the same value exactly when they give the same text.  *)
(***************************************************************************)
EXTENDS Integers, Sequences, FiniteSets, TLC

VARIABLES
    index,              \* the DocumentIndex handed to query
    max_steps,          \* the max_steps argument of query
    current_node,       \* the cursor (a node of index.nodes)
    navigation_path,
    reasoning_trace,
    extracted_pieces,
    sources,
    step,               \* the loop variable of "for step in range(max_steps)"
    response,           \* the oracle's latest navigate reply (NoResponse before any)
    decision,           \* the local variable decision (Unbound before the first step)
    pc,                 \* "loop", "synthesize", "done" or "raised"
    raised,             \* the exception that left query, "none" if none
    result,             \* the returned QueryResult: None until query returns
    navCalls,           \* calls of _get_navigation_decision so far
    synthCalls,         \* oracle calls made by _synthesize_answer so far
    synth_invocations,  \* arguments of each call of _synthesize_answer
    recording,          \* whether the oracle's replies are kept in oracle_log
    oracle_log,         \* the replies the oracle gave to this query, in order
    builder,            \* the classmethod building index, "none" once it is built
    todo,               \* the calls of _add_section still to be made, in order
    extra,              \* the footnotes or appendices still to be added, or None
    running,            \* which of two concurrent calls of query runs (0: one call)
    other               \* the locals of the call of query that is not running

vars == <<index, max_steps, current_node, navigation_path, reasoning_trace,
          extracted_pieces, sources, step, response, decision, pc, raised, result,
          navCalls, synthCalls, synth_invocations, recording, oracle_log,
          builder, todo, extra, running, other>>

\* What a call of query has no access to: the builder's state, and the locals
\* of another call.
outside == <<builder, todo, extra, running, other>>

None == <<>>
Some(x) == <<x>>

(***************************************************************************)
(* Bounds                                                                  *)
(***************************************************************************)
MaxSteps == 3

(***************************************************************************)
(* Documents.  A node is a number; index.nodes[n] is its DocumentNode.     *)
(***************************************************************************)
DocumentNode(id, title, content, level, parent, children) ==
    [id |-> id, title |-> title, content |-> content, level |-> level,
     parent |-> parent, children |-> children]

NoChildren == [i \in {} |-> 0]

\* from_supply_chain_sop on sections {Policy: {subsections: {Markdown Rules}}}
\* and appendices {Policy}: the id "Policy" occurs under two parents.
SopIndex ==
    [root |-> 0,
     metadata |-> [document_type |-> "Standard Operating Procedure"],
     nodes |-> <<
        DocumentNode("Policy", "Policy", "", 1, Some(0), ("Markdown Rules" :> 2)),
        DocumentNode("Markdown Rules", "Markdown Rules",
                     "Dairy markdown: 20% after 3 days, 50% after 7 days",
                     2, Some(1), NoChildren),
        DocumentNode("Appendices", "Appendices", "", 1, Some(0), ("Policy" :> 4)),
        DocumentNode("Policy", "Policy Glossary", "Terms", 2, Some(3), NoChildren)
        >> @@ (0 :> DocumentNode("root", "Retail SOP", "Document ID: SOP-1", 0, None,
                                 ("Policy" :> 1) @@ ("Appendices" :> 3))),
     nodes_by_id |-> ("root" :> 0) @@ ("Policy" :> 4) @@ ("Markdown Rules" :> 2)
                     @@ ("Appendices" :> 3)]

\* from_sec_filing on a filing without sections and footnotes: the root alone.
BareIndex ==
    [root |-> 0,
     metadata |-> [document_type |-> "SEC Filing"],
     nodes |-> (0 :> DocumentNode("root", "Acme 10-K FY2024", "", 0, None, NoChildren)),
     nodes_by_id |-> ("root" :> 0)]

Indexes == {SopIndex, BareIndex}

NodeOf(n) == index.nodes[n]

(***************************************************************************)
(* The oracle's replies                                                    *)
(***************************************************************************)
NavigationActions == {"descend", "extract", "backtrack", "complete"}

\* kind "unavailable": chat.completions.create raises; "malformed": the content
\* is not JSON; "json": a JSON object whose fields are present (Some) or not.
Reply(kind, action, target, reasoning, info, confidence) ==
    [kind |-> kind, action |-> action, target_section |-> target,
     reasoning |-> reasoning, extracted_info |-> info, confidence |-> confidence]

Confidences == {None, Some(0), Some(9), Some(15)}
Targets == {None, Some(""), Some("Policy"), Some("Markdown Rules"), Some("Appendices")}
Infos == {None, Some(""), Some("fact")}

NavigateReplies ==
    {Reply("unavailable", None, None, None, None, None),
     Reply("malformed", None, None, None, None, None)}
    \cup {Reply("json", Some("descend"), t, Some("why"), None, c) :
            t \in Targets, c \in Confidences}
    \cup {Reply("json", Some("extract"), None, Some("why"), i, c) :
            i \in Infos, c \in Confidences}
    \cup {Reply("json", Some(a), Some("Policy"), Some("why"), Some("fact"), c) :
            a \in {"backtrack", "complete"}, c \in Confidences}
    \cup {Reply("json", a, None, r, None, c) :
            a \in {Some("backtrack"), Some("complete"), Some("jump"), None},
            r \in {None, Some("why")}, c \in {None, Some(9)}}

NoResponse == Reply("none", None, None, None, None, None)

SynthesisReplies == {[kind |-> "unavailable", content |-> ""],
                     [kind |-> "text", content |-> "answer"]}

(***************************************************************************)
(* _get_navigation_decision: the parsing of a reply                        *)
(***************************************************************************)
DefaultConfidence == 5

Get(field, default) == IF field = None THEN default ELSE field[1]

NavigationDecision(action, target, reasoning, info, confidence) ==
    [action |-> action, target_section |-> target, reasoning |-> reasoning,
     extracted_info |-> info, confidence |-> confidence]

Unbound == NavigationDecision("unbound", None, "", None, 0)

\* GetNavigationDecision with the action required: a reply without one is
\* refused like an unknown one.
GetNavigationDecisionActionRequired(reply) ==
    IF reply.kind = "unavailable" THEN [raises |-> "APIError", decision |-> Unbound]
    ELSE IF reply.kind = "malformed"
    THEN [raises |-> "JSONDecodeError", decision |-> Unbound]
    ELSE IF reply.action = None \/ reply.action[1] \notin NavigationActions
    THEN [raises |-> "ValueError", decision |-> Unbound]
    ELSE [raises |-> "none",
          decision |-> NavigationDecision(reply.action[1],
                                          reply.target_section,
                                          Get(reply.reasoning, ""),
                                          reply.extracted_info,
                                          Get(reply.confidence, DefaultConfidence))]

\* GetNavigationDecision with an unknown action token taken as "complete".
GetNavigationDecisionCoercing(reply) ==
    IF reply.kind = "unavailable" THEN [raises |-> "APIError", decision |-> Unbound]
    ELSE IF reply.kind = "malformed"
    THEN [raises |-> "JSONDecodeError", decision |-> Unbound]
    ELSE [raises |-> "none",
          decision |-> NavigationDecision(
                           IF Get(reply.action, "complete") \in NavigationActions
                           THEN Get(reply.action, "complete") ELSE "complete",
                           reply.target_section,
                           Get(reply.reasoning, ""),
                           reply.extracted_info,
                           Get(reply.confidence, DefaultConfidence))]

\* What the call gives: the exception it raises ("none" for a normal return)
\* and the decision it returns.
GetNavigationDecision(reply) ==
    IF reply.kind = "unavailable" THEN [raises |-> "APIError", decision |-> Unbound]
    ELSE IF reply.kind = "malformed"
    THEN [raises |-> "JSONDecodeError", decision |-> Unbound]
    ELSE IF Get(reply.action, "complete") \notin NavigationActions
    THEN [raises |-> "ValueError", decision |-> Unbound]
    ELSE [raises |-> "none",
          decision |-> NavigationDecision(Get(reply.action, "complete"),
                                          reply.target_section,
                                          Get(reply.reasoning, ""),
                                          reply.extracted_info,
                                          Get(reply.confidence, DefaultConfidence))]

(***************************************************************************)
(* query                                                                   *)
(***************************************************************************)
Str(field) == IF field = None THEN "None" ELSE field[1]

\* StepLine numbered with the loop variable itself (from 0).
StepLineZeroBased(s, d) == <<"Step ", s, ": ", d.action, " - ", d.reasoning>>

StepLine(s, d) == <<"Step ", s + 1, ": ", d.action, " - ", d.reasoning>>

InvalidLine(d) ==
    <<"  -> Invalid section '", Str(d.target_section), "', staying at current location">>

SourceLabel(n) == <<NodeOf(n).id, ": ", NodeOf(n).title>>

\* PathEntry with a marker for downward moves, like the one for upward moves.
PathEntryMarked(id) == <<"[down]", id>>

PathEntry(id) == <<"", id>>

UpMarker(n) == <<"[up]", NodeOf(n).id>>

Truthy(field) == field # None /\ field # Some("")

ValidTarget(n, target) == Truthy(target) /\ target[1] \in DOMAIN NodeOf(n).children

Child(n, target) == NodeOf(n).children[target[1]]

\* LoopGuard with the bound taken inclusively (range(max_steps + 1)).
LoopGuardInclusive(s, max) == s <= max

LoopGuard(s, max) == s < max

\* The state at the first line of query(idx, q, max).
Start(idx, max, rec) ==
    /\ index = idx
    /\ max_steps = max
    /\ recording = rec
    /\ oracle_log = <<>>
    /\ current_node = index.root
    /\ navigation_path = <<PathEntry("root")>>
    /\ reasoning_trace = <<>>
    /\ extracted_pieces = <<>>
    /\ sources = <<>>
    /\ step = 0
    /\ response = NoResponse
    /\ decision = Unbound
    /\ pc = "loop"
    /\ raised = "none"
    /\ result = None
    /\ navCalls = 0
    /\ synthCalls = 0
    /\ synth_invocations = <<>>

\* One call of query on a built index, no other call beside it.
Alone ==
    /\ builder = "none"
    /\ todo = <<>>
    /\ extra = None
    /\ running = 0
    /\ other = None

Init == Alone /\ \E idx \in Indexes, max \in 0..MaxSteps : Start(idx, max, FALSE)

\* The oracle returned reply (or failed, for a reply of kind "unavailable").
Record(reply) ==
    oracle_log' = IF recording THEN Append(oracle_log, reply) ELSE oracle_log

\* Raise with the exception swallowed: query goes on to synthesis.
RaiseSwallowed(exception) ==
    /\ pc' = "synthesize"
    /\ raised' = exception

Raise(exception) ==
    /\ pc' = "raised"
    /\ raised' = exception

\* Descend with a rejected target still logged in the navigation path.
DescendLogsAttempt(d) ==
    /\ IF ValidTarget(current_node, d.target_section)
       THEN /\ current_node' = Child(current_node, d.target_section)
            /\ navigation_path' = Append(navigation_path, PathEntry(d.target_section[1]))
            /\ reasoning_trace' = Append(reasoning_trace, StepLine(step, d))
       ELSE /\ reasoning_trace' =
                    reasoning_trace \o <<StepLine(step, d), InvalidLine(d)>>
            /\ navigation_path' =
                    Append(navigation_path, PathEntry(Str(d.target_section)))
            /\ UNCHANGED current_node
    /\ UNCHANGED <<extracted_pieces, sources>>
    /\ UNCHANGED index

\* Descend with the target looked up in index.nodes_by_id instead of among
\* the children of the current node.
DescendById(d) ==
    /\ IF Truthy(d.target_section) /\ d.target_section[1] \in DOMAIN index.nodes_by_id
       THEN /\ current_node' = index.nodes_by_id[d.target_section[1]]
            /\ navigation_path' = Append(navigation_path, PathEntry(d.target_section[1]))
            /\ reasoning_trace' = Append(reasoning_trace, StepLine(step, d))
       ELSE /\ reasoning_trace' =
                    reasoning_trace \o <<StepLine(step, d), InvalidLine(d)>>
            /\ UNCHANGED <<current_node, navigation_path>>
    /\ UNCHANGED <<extracted_pieces, sources>>
    /\ UNCHANGED index

\* Descend that takes the child out of the current node (children.pop).
DescendPopsChild(d) ==
    /\ IF ValidTarget(current_node, d.target_section)
       THEN /\ current_node' = Child(current_node, d.target_section)
            /\ navigation_path' = Append(navigation_path, PathEntry(d.target_section[1]))
            /\ reasoning_trace' = Append(reasoning_trace, StepLine(step, d))
            /\ index' = [index EXCEPT !.nodes[current_node].children =
                            [i \in DOMAIN @ \ {d.target_section[1]} |-> @[i]]]
       ELSE /\ reasoning_trace' =
                    reasoning_trace \o <<StepLine(step, d), InvalidLine(d)>>
            /\ UNCHANGED <<current_node, navigation_path, index>>
    /\ UNCHANGED <<extracted_pieces, sources>>

Descend(d) ==
    /\ IF ValidTarget(current_node, d.target_section)
       THEN /\ current_node' = Child(current_node, d.target_section)
            /\ navigation_path' = Append(navigation_path, PathEntry(d.target_section[1]))
            /\ reasoning_trace' = Append(reasoning_trace, StepLine(step, d))
       ELSE /\ reasoning_trace' =
                    reasoning_trace \o <<StepLine(step, d), InvalidLine(d)>>
            /\ UNCHANGED <<current_node, navigation_path>>
    /\ UNCHANGED <<extracted_pieces, sources>>
    /\ UNCHANGED index

\* Extract with the new piece and its label put in front of the earlier ones.
ExtractPrepends(d) ==
    /\ reasoning_trace' = Append(reasoning_trace, StepLine(step, d))
    /\ IF Truthy(d.extracted_info)
       THEN /\ extracted_pieces' = <<d.extracted_info[1]>> \o extracted_pieces
            /\ sources' = <<SourceLabel(current_node)>> \o sources
       ELSE UNCHANGED <<extracted_pieces, sources>>
    /\ UNCHANGED <<current_node, navigation_path>>
    /\ UNCHANGED index

\* Extract with the source label appended whether or not a piece was.
ExtractLabelsAlways(d) ==
    /\ reasoning_trace' = Append(reasoning_trace, StepLine(step, d))
    /\ sources' = Append(sources, SourceLabel(current_node))
    /\ IF Truthy(d.extracted_info)
       THEN extracted_pieces' = Append(extracted_pieces, d.extracted_info[1])
       ELSE UNCHANGED extracted_pieces
    /\ UNCHANGED <<current_node, navigation_path>>
    /\ UNCHANGED index

Extract(d) ==
    /\ reasoning_trace' = Append(reasoning_trace, StepLine(step, d))
    /\ IF Truthy(d.extracted_info)
       THEN /\ extracted_pieces' = Append(extracted_pieces, d.extracted_info[1])
            /\ sources' = Append(sources, SourceLabel(current_node))
       ELSE UNCHANGED <<extracted_pieces, sources>>
    /\ UNCHANGED <<current_node, navigation_path>>
    /\ UNCHANGED index

\* Backtrack whose up-marker carries the id of the node that was left.
BacktrackMarksDeparted(d) ==
    /\ reasoning_trace' = Append(reasoning_trace, StepLine(step, d))
    /\ IF NodeOf(current_node).parent # None
       THEN /\ current_node' = NodeOf(current_node).parent[1]
            /\ navigation_path' = Append(navigation_path, UpMarker(current_node))
       ELSE UNCHANGED <<current_node, navigation_path>>
    /\ UNCHANGED <<extracted_pieces, sources>>
    /\ UNCHANGED index

\* Backtrack that records the attempt in the path even at the root.
BacktrackLogsAtRoot(d) ==
    /\ reasoning_trace' = Append(reasoning_trace, StepLine(step, d))
    /\ IF NodeOf(current_node).parent # None
       THEN /\ current_node' = NodeOf(current_node).parent[1]
            /\ navigation_path' =
                    Append(navigation_path, UpMarker(NodeOf(current_node).parent[1]))
       ELSE /\ navigation_path' = Append(navigation_path, UpMarker(current_node))
            /\ UNCHANGED current_node
    /\ UNCHANGED <<extracted_pieces, sources>>
    /\ UNCHANGED index

Backtrack(d) ==
    /\ reasoning_trace' = Append(reasoning_trace, StepLine(step, d))
    /\ IF NodeOf(current_node).parent # None
       THEN /\ current_node' = NodeOf(current_node).parent[1]
            /\ navigation_path' =
                    Append(navigation_path, UpMarker(NodeOf(current_node).parent[1]))
       ELSE UNCHANGED <<current_node, navigation_path>>
    /\ UNCHANGED <<extracted_pieces, sources>>
    /\ UNCHANGED index

\* Complete that keeps the extracted_info the decision carries.
CompleteTakesInfo(d) ==
    /\ reasoning_trace' = Append(reasoning_trace, StepLine(step, d))
    /\ IF Truthy(d.extracted_info)
       THEN /\ extracted_pieces' = Append(extracted_pieces, d.extracted_info[1])
            /\ sources' = Append(sources, SourceLabel(current_node))
       ELSE UNCHANGED <<extracted_pieces, sources>>
    /\ UNCHANGED <<current_node, navigation_path>>
    /\ UNCHANGED index

Complete(d) ==
    /\ reasoning_trace' = Append(reasoning_trace, StepLine(step, d))
    /\ UNCHANGED <<current_node, navigation_path, extracted_pieces, sources>>
    /\ UNCHANGED index

\* AfterDecision without the break.
AfterDecisionNoBreak(d) == pc' = "loop" /\ step' = step + 1

\* The loop's control after a decision was applied: break on COMPLETE,
\* otherwise the next value of range(max_steps).
AfterDecision(d) ==
    IF d.action = "complete"
    THEN pc' = "synthesize" /\ step' = step
    ELSE pc' = "loop" /\ step' = step + 1

\* One iteration of the loop, with an oracle that answers from replies: the
\* oracle is asked, its reply parsed, the decision applied.
NavigateWith(replies) ==
    /\ pc = "loop"
    /\ LoopGuard(step, max_steps)
    /\ \E reply \in replies :
         LET got == GetNavigationDecision(reply) IN
         /\ navCalls' = navCalls + 1
         /\ Record(reply)
         /\ response' = reply
         /\ IF got.raises # "none"
            THEN /\ Raise(got.raises)
                 /\ UNCHANGED <<index, current_node, navigation_path, reasoning_trace,
                                extracted_pieces, sources, step, decision>>
            ELSE /\ decision' = got.decision
                 /\ raised' = raised
                 /\ CASE got.decision.action = "descend" -> Descend(got.decision)
                      [] got.decision.action = "extract" -> Extract(got.decision)
                      [] got.decision.action = "backtrack" -> Backtrack(got.decision)
                      [] got.decision.action = "complete" -> Complete(got.decision)
                 /\ AfterDecision(got.decision)
    /\ UNCHANGED <<max_steps, result, synthCalls, synth_invocations, recording>>
    /\ UNCHANGED outside

NavigateStep == NavigateWith(NavigateReplies)

\* range(max_steps) is exhausted.
LoopExit ==
    /\ pc = "loop"
    /\ ~LoopGuard(step, max_steps)
    /\ pc' = "synthesize"
    /\ UNCHANGED <<index, max_steps, current_node, navigation_path, reasoning_trace,
                   extracted_pieces, sources, step, response, decision, raised,
                   result, navCalls, synthCalls, synth_invocations, recording,
                   oracle_log>>
    /\ UNCHANGED outside

Sentinel == "Unable to find relevant information in the document."

\* ShortCircuit that never applies: the oracle is asked even without evidence.
ShortCircuitNever(pieces) == FALSE

ShortCircuit(pieces) == pieces = <<>>

\* ResultConfidence without the evidence test.
ResultConfidenceOfLastDecision(d, pieces) == d.confidence

ResultConfidence(d, pieces) == IF pieces # <<>> THEN d.confidence ELSE 0

QueryResult(answer) ==
    [answer |-> answer,
     sources |-> sources,
     confidence |-> ResultConfidence(decision, extracted_pieces),
     navigation_path |-> navigation_path,
     reasoning_trace |-> reasoning_trace]

\* _synthesize_answer and the return of query.
Synthesize ==
    /\ pc = "synthesize"
    /\ synth_invocations' = Append(synth_invocations,
                                   [pieces |-> extracted_pieces, sources |-> sources])
    /\ IF ShortCircuit(extracted_pieces)
       THEN /\ result' = Some(QueryResult(Sentinel))
            /\ pc' = "done"
            /\ UNCHANGED <<raised, synthCalls, oracle_log>>
       ELSE \E reply \in SynthesisReplies :
                /\ synthCalls' = synthCalls + 1
                /\ Record(reply)
                /\ IF reply.kind = "unavailable"
                   THEN Raise("APIError") /\ result' = result
                   ELSE /\ result' = Some(QueryResult(reply.content))
                        /\ pc' = "done"
                        /\ raised' = raised
    /\ UNCHANGED <<index, max_steps, current_node, navigation_path, reasoning_trace,
                   extracted_pieces, sources, step, response, decision, navCalls,
                   recording>>
    /\ UNCHANGED outside

Next == NavigateStep \/ LoopExit \/ Synthesize

Spec == Init /\ [][Next]_vars

(***************************************************************************)
(* The query of the markdown-policy scenario: the SOP tree, a scripted      *)
(* oracle that picks among the scenario's decisions, replies recorded.      *)
(***************************************************************************)
ScenarioSteps == 4

LeafContent == "Dairy markdown: 20% after 3 days, 50% after 7 days"

ScenarioDescend(t) == Reply("json", Some("descend"), Some(t), Some("why"), None, Some(9))
ScenarioExtract == Reply("json", Some("extract"), None, Some("why"), Some(LeafContent), Some(9))
ScenarioBacktrack == Reply("json", Some("backtrack"), None, Some("why"), None, Some(9))
ScenarioComplete == Reply("json", Some("complete"), None, Some("why"), None, Some(9))

ScenarioReplies ==
    {ScenarioDescend(t) : t \in {"Policy", "Markdown Rules", "Appendices"}}
    \cup {ScenarioExtract, ScenarioBacktrack, ScenarioComplete}

ScenarioInit == Alone /\ \E max \in 0..ScenarioSteps : Start(SopIndex, max, TRUE)

ScenarioStep == NavigateWith(ScenarioReplies)

ScenarioNext == ScenarioStep \/ LoopExit \/ Synthesize

ScenarioSpec == ScenarioInit /\ [][ScenarioNext]_vars

(***************************************************************************)
(* DocumentIndex.from_sec_filing and from_supply_chain_sop.  A dict of the   *)
(* input is the sequence of its items, in order, with distinct keys.         *)
(***************************************************************************)
MaxSections == 2
MaxSubsections == 1

locals == <<max_steps, current_node, navigation_path, reasoning_trace,
            extracted_pieces, sources, step, response, decision, raised, result,
            navCalls, synthCalls, synth_invocations, recording, oracle_log>>

Dicts(items, n) ==
    {d \in UNION {[1..k -> items] : k \in 0..n} :
        \A i, j \in DOMAIN d : i < j => d[i].id # d[j].id}

SubsectionInputs ==
    Dicts({[id |-> i, subsections |-> <<>>] : i \in {"A", "C"}}, MaxSubsections)

SectionInputs ==
    Dicts({[id |-> i, subsections |-> d] :
              i \in {"A", "B", "Footnotes", "Appendices"}, d \in SubsectionInputs},
          MaxSections)

\* data['footnotes'] or data['appendices']: absent, or a dict of at most one entry.
ExtraInputs ==
    {None} \cup {Some(d) : d \in Dicts({[id |-> i, subsections |-> <<>>] :
                                           i \in {"A", "N"}}, 1)}

BranchId(b) == IF b = "from_sec_filing" THEN "Footnotes" ELSE "Appendices"

BranchTitle(b) ==
    IF b = "from_sec_filing" THEN "Financial Statement Footnotes" ELSE "Appendices"

\* The index once nodes_by_id['root'] = root is done.
RootOnly(b) ==
    IF b = "from_sec_filing"
    THEN BareIndex
    ELSE [root |-> 0,
          metadata |-> [document_type |-> "Standard Operating Procedure"],
          nodes |-> (0 :> DocumentNode("root", "Retail SOP", "Document ID: SOP-1",
                                       0, None, NoChildren)),
          nodes_by_id |-> ("root" :> 0)]

\* The calls of _add_section (or the note insertions) that a loop over the
\* items of dict makes, in order.
Calls(parent, dict, level) ==
    [i \in 1..Len(dict) |->
        [parent |-> parent, id |-> dict[i].id,
         subsections |-> dict[i].subsections, level |-> level]]

NewNode(idx) == Cardinality(DOMAIN idx.nodes)

\* A new node made and stored: parent.children[id] = node and
\* nodes_by_id[id] = node, each assignment replacing an entry of the same key.
Insert(idx, parent, id, title, level) ==
    [idx EXCEPT
        !.nodes = (NewNode(idx) :> DocumentNode(id, title, "", level, Some(parent),
                                                NoChildren))
                  @@ [@ EXCEPT ![parent].children = (id :> NewNode(idx)) @@ @],
        !.nodes_by_id = (id :> NewNode(idx)) @@ @]

BuildInit ==
    /\ builder \in {"from_sec_filing", "from_supply_chain_sop"}
    /\ index = RootOnly(builder)
    /\ \E sections \in SectionInputs : todo = Calls(0, sections, 1)
    /\ extra \in ExtraInputs
    /\ pc = "sections"
    /\ running = 0
    /\ other = None
    /\ max_steps = 0
    /\ recording = FALSE
    /\ oracle_log = <<>>
    /\ current_node = 0
    /\ navigation_path = <<>>
    /\ reasoning_trace = <<>>
    /\ extracted_pieces = <<>>
    /\ sources = <<>>
    /\ step = 0
    /\ response = NoResponse
    /\ decision = Unbound
    /\ raised = "none"
    /\ result = None
    /\ navCalls = 0
    /\ synthCalls = 0
    /\ synth_invocations = <<>>

\* One call of _add_section: its node, then its subsections before anything else.
AddSection ==
    /\ pc = "sections"
    /\ todo # <<>>
    /\ LET call == Head(todo) IN
         /\ index' = Insert(index, call.parent, call.id, call.id, call.level)
         /\ todo' = Calls(NewNode(index), call.subsections, call.level + 1)
                    \o Tail(todo)
    /\ UNCHANGED <<pc, builder, extra, running, other>>
    /\ UNCHANGED locals

\* The sections are done and the input has footnotes (appendices): the branch node.
AddBranch ==
    /\ pc = "sections"
    /\ todo = <<>>
    /\ extra # None
    /\ index' = Insert(index, index.root, BranchId(builder), BranchTitle(builder), 1)
    /\ todo' = Calls(NewNode(index), extra[1], 2)
    /\ pc' = "notes"
    /\ UNCHANGED <<builder, extra, running, other>>
    /\ UNCHANGED locals

\* One footnote (appendix) under the branch node.
AddNote ==
    /\ pc = "notes"
    /\ todo # <<>>
    /\ index' = Insert(index, Head(todo).parent, Head(todo).id, "Note", 2)
    /\ todo' = Tail(todo)
    /\ UNCHANGED <<pc, builder, extra, running, other>>
    /\ UNCHANGED locals

ReturnIndex ==
    /\ todo = <<>>
    /\ pc = "notes" \/ (pc = "sections" /\ extra = None)
    /\ pc' = "built"
    /\ UNCHANGED <<index, builder, todo, extra, running, other>>
    /\ UNCHANGED locals

BuildNext == AddSection \/ AddBranch \/ AddNote \/ ReturnIndex

BuildSpec == BuildInit /\ [][BuildNext]_vars

\* query, with every step that can be taken taken in the end: the
\* interpreter goes on to the next statement and every oracle call comes back.
FairSpec == Spec /\ WF_vars(Next)

(***************************************************************************)
(* Two calls of query on the same index, their steps interleaved.  The call  *)
(* that runs has its parameters and locals in the variables; those of the    *)
(* other call are kept in other.                                             *)
(***************************************************************************)
ConcurrentSteps == 2

ConcurrentReplies ==
    {ScenarioDescend("Policy"), ScenarioExtract, ScenarioBacktrack, ScenarioComplete,
     Reply("malformed", None, None, None, None, None)}

\* The parameters and locals of the running call.
Frame ==
    [max_steps |-> max_steps, current_node |-> current_node,
     navigation_path |-> navigation_path, reasoning_trace |-> reasoning_trace,
     extracted_pieces |-> extracted_pieces, sources |-> sources, step |-> step,
     response |-> response, decision |-> decision, pc |-> pc, raised |-> raised,
     result |-> result, navCalls |-> navCalls, synthCalls |-> synthCalls,
     synth_invocations |-> synth_invocations, oracle_log |-> oracle_log]

\* The parameters and locals of a call of query(idx, q, max) at its first line.
FirstFrame(idx, max) ==
    [max_steps |-> max, current_node |-> idx.root,
     navigation_path |-> <<PathEntry("root")>>, reasoning_trace |-> <<>>,
     extracted_pieces |-> <<>>, sources |-> <<>>, step |-> 0,
     response |-> NoResponse, decision |-> Unbound, pc |-> "loop", raised |-> "none",
     result |-> None, navCalls |-> 0, synthCalls |-> 0,
     synth_invocations |-> <<>>, oracle_log |-> <<>>]

ConcurrentInit ==
    /\ builder = "none"
    /\ todo = <<>>
    /\ extra = None
    /\ running = 1
    /\ \E max1, max2 \in 0..ConcurrentSteps :
          /\ Start(SopIndex, max1, TRUE)
          /\ other = Some(FirstFrame(SopIndex, max2))

\* Switch with one pair of evidence lists for both calls (lists kept on the
\* navigator instead of in the call).
SwitchSharingEvidence ==
    /\ running \in {1, 2}
    /\ running' = 3 - running
    /\ other' = Some(Frame)
    /\ max_steps' = other[1].max_steps
    /\ current_node' = other[1].current_node
    /\ navigation_path' = other[1].navigation_path
    /\ reasoning_trace' = other[1].reasoning_trace
    /\ step' = other[1].step
    /\ response' = other[1].response
    /\ decision' = other[1].decision
    /\ pc' = other[1].pc
    /\ raised' = other[1].raised
    /\ result' = other[1].result
    /\ navCalls' = other[1].navCalls
    /\ synthCalls' = other[1].synthCalls
    /\ synth_invocations' = other[1].synth_invocations
    /\ oracle_log' = other[1].oracle_log
    /\ UNCHANGED <<extracted_pieces, sources>>
    /\ UNCHANGED <<index, recording, builder, todo, extra>>

\* The other call runs from here on: every parameter and local belongs to
\* its call; the index is the one both were given.
Switch ==
    /\ running \in {1, 2}
    /\ running' = 3 - running
    /\ other' = Some(Frame)
    /\ max_steps' = other[1].max_steps
    /\ current_node' = other[1].current_node
    /\ navigation_path' = other[1].navigation_path
    /\ reasoning_trace' = other[1].reasoning_trace
    /\ extracted_pieces' = other[1].extracted_pieces
    /\ sources' = other[1].sources
    /\ step' = other[1].step
    /\ response' = other[1].response
    /\ decision' = other[1].decision
    /\ pc' = other[1].pc
    /\ raised' = other[1].raised
    /\ result' = other[1].result
    /\ navCalls' = other[1].navCalls
    /\ synthCalls' = other[1].synthCalls
    /\ synth_invocations' = other[1].synth_invocations
    /\ oracle_log' = other[1].oracle_log
    /\ UNCHANGED <<index, recording, builder, todo, extra>>

ConcurrentStep == NavigateWith(ConcurrentReplies)

ConcurrentNext == ConcurrentStep \/ LoopExit \/ Synthesize \/ Switch

ConcurrentSpec == ConcurrentInit /\ [][ConcurrentNext]_vars

TypeOK ==
    /\ index \in Indexes
    /\ max_steps \in 0..MaxSteps
    /\ current_node \in DOMAIN index.nodes
    /\ step \in 0..max_steps
    /\ pc \in {"loop", "synthesize", "done", "raised"}
    /\ raised \in {"none", "APIError", "JSONDecodeError", "ValueError"}
    /\ navCalls \in 0..MaxSteps
    /\ synthCalls \in 0..1

(***************************************************************************)
(* Properties                                                              *)
(***************************************************************************)
\* The step being taken asked the oracle and got a JSON reply naming action a.
Replied(a) ==
    /\ navCalls' = navCalls + 1
    /\ response'.kind = "json"
    /\ response'.action = Some(a)

\* The ids of the nodes whose parent is n.
DirectChildIds(n) ==
    {NodeOf(c).id : c \in {m \in DOMAIN index.nodes : NodeOf(m).parent = Some(n)}}

\* The step being taken asked the oracle and got back a decision of action a.
Decided(a) ==
    /\ navCalls' = navCalls + 1
    /\ pc' # "raised"
    /\ decision'.action = a

\* C1: one call of query makes at most max_steps calls of
\* _get_navigation_decision, whatever the tree and the oracle's replies.
C1_NavigateCallsWithinBudget == navCalls <= max_steps

C1_Witness == pc = "done" /\ max_steps = MaxSteps /\ navCalls = max_steps

\* The oracle's latest reply is one the claim C2 calls unparseable: not JSON,
\* or JSON with an action token outside the four actions.
Unparseable(reply) ==
    \/ reply.kind = "malformed"
    \/ reply.kind = "json" /\ reply.action # None
         /\ reply.action[1] \notin NavigationActions

\* C2: when the oracle's reply cannot be parsed into a decision, query does
\* not raise: the step counts as a COMPLETE decision with its trace entry,
\* and query goes on to synthesis and returns a QueryResult.
C2_ParseFailureFallsBackToComplete ==
    Unparseable(response) =>
        /\ raised \notin {"JSONDecodeError", "ValueError"}
        /\ decision.action = "complete"
        /\ Len(reasoning_trace) >= navCalls
        /\ pc \in {"synthesize", "done"} \/ (pc = "raised" /\ synthCalls = 1)
        /\ pc = "done" => result # None

\* C3: a DESCEND whose target is absent, empty or not the id of a direct child
\* of the current node leaves cursor and navigation path as they were, does
\* not fail, adds a second trace line naming the target, and the loop goes on.
C3_InvalidDescendStays ==
    [][ ( /\ Replied("descend")
          /\ \/ response'.target_section = None
             \/ response'.target_section = Some("")
             \/ response'.target_section[1] \notin DirectChildIds(current_node) )
        => /\ current_node' = current_node
           /\ navigation_path' = navigation_path
           /\ raised' = "none"
           /\ pc' = "loop"
           /\ step' = step + 1
           /\ Len(reasoning_trace') = Len(reasoning_trace) + 2
           /\ SubSeq(reasoning_trace', 1, Len(reasoning_trace)) = reasoning_trace
           /\ reasoning_trace'[Len(reasoning_trace')][2] = Str(response'.target_section)
      ]_vars

C3_Witness ==
    /\ index = SopIndex
    /\ pc = "loop"
    /\ navCalls = 1
    /\ response.action = Some("descend")
    /\ response.target_section = Some("Markdown Rules")
    /\ current_node = index.root
    /\ navigation_path = <<PathEntry("root")>>
    /\ Len(reasoning_trace) = 2

\* C4: a BACKTRACK at the root changes neither cursor, navigation path,
\* extracted pieces nor sources and raises nothing; a BACKTRACK elsewhere
\* moves the cursor to its parent and appends one up-marker naming the parent.
C4_BacktrackRootNoOpElseParent ==
    [][ Replied("backtrack")
        => /\ raised' = "none"
           /\ pc' = "loop"
           /\ UNCHANGED <<extracted_pieces, sources>>
           /\ IF current_node = index.root
              THEN UNCHANGED <<current_node, navigation_path>>
              ELSE /\ Some(current_node') = NodeOf(current_node).parent
                   /\ navigation_path' =
                        Append(navigation_path, <<"[up]", NodeOf(current_node').id>>)
      ]_vars

C4_Witness ==
    /\ navCalls = 3
    /\ response.action = Some("backtrack")
    /\ current_node = index.root
    /\ navigation_path = <<PathEntry("root"), PathEntry("Policy"), <<"[up]", "root">>>>

\* C5: sources and extracted pieces always have the same length, and each
\* change of either appends one piece and, at the same index, the label
\* "{id}: {title}" of the node the cursor is on; earlier entries are kept.
C5_SourcesAlignedWithPieces ==
    /\ [](Len(sources) = Len(extracted_pieces))
    /\ [][ (sources' # sources \/ extracted_pieces' # extracted_pieces)
           => /\ Len(extracted_pieces') = Len(extracted_pieces) + 1
              /\ SubSeq(extracted_pieces', 1, Len(extracted_pieces)) = extracted_pieces
              /\ extracted_pieces'[Len(extracted_pieces')] = response'.extracted_info[1]
              /\ sources' = Append(sources, <<NodeOf(current_node).id, ": ",
                                              NodeOf(current_node).title>>)
         ]_vars

C5_Witness ==
    /\ Len(extracted_pieces) = 2
    /\ sources = <<<<"Policy", ": ", "Policy">>, <<"Policy", ": ", "Policy">>>>

\* C6: when nothing was extracted, no synthesize call reaches the oracle, and
\* the returned result has the sentinel answer, confidence 0.0 and no sources.
C6_NoEvidenceShortCircuits ==
    extracted_pieces = <<>> =>
        /\ synthCalls = 0
        /\ pc = "done" =>
             /\ result[1].answer = "Unable to find relevant information in the document."
             /\ result[1].confidence = 0
             /\ result[1].sources = <<>>

C6_Witness ==
    /\ pc = "done"
    /\ extracted_pieces = <<>>
    /\ decision.action = "backtrack"
    /\ decision.confidence = 9
    /\ Len(synth_invocations) = 1

\* C7: the result's confidence is that of the last decision received when at
\* least one piece was extracted, whatever that decision's action, and 0.0
\* when none was.
C7_ConfidenceOfLastDecisionIfEvidence ==
    pc = "done" =>
        result[1].confidence =
            IF Len(extracted_pieces) > 0
            THEN decision.confidence
            ELSE 0

C7_Witness ==
    /\ pc = "done"
    /\ Len(extracted_pieces) = 1
    /\ decision.action = "descend"
    /\ decision.confidence = 15
    /\ result[1].confidence = 15

\* C8: a COMPLETE decision changes neither cursor, path, pieces nor sources
\* and ends the loop; no navigate call follows it; the synthesizer is then
\* called once, with the pieces and sources gathered up to then.
C8_CompleteEndsLoop ==
    /\ [][ Decided("complete")
           => /\ pc' = "synthesize"
              /\ UNCHANGED <<current_node, navigation_path, extracted_pieces, sources>>
         ]_vars
    /\ [][ decision.action = "complete" => navCalls' = navCalls ]_vars
    /\ [](Len(synth_invocations) <= 1)
    /\ []( (decision.action = "complete" /\ pc \in {"done", "raised"})
           => synth_invocations =
                <<[pieces |-> extracted_pieces, sources |-> sources]>> )

C8_Witness ==
    /\ pc = "done"
    /\ decision.action = "complete"
    /\ Len(extracted_pieces) = 1
    /\ navCalls = 2
    /\ max_steps = MaxSteps
    /\ synthCalls = 1

\* C9: a service failure of the oracle, in a navigate or a synthesize call,
\* ends the invocation by raising: no QueryResult is returned, and no oracle
\* call, of either kind, is made after the failed one.
C9_ServiceFailurePropagates ==
    /\ [](raised = "APIError" => pc = "raised" /\ result = None)
    /\ []((response.kind = "unavailable") => raised = "APIError")
    /\ [][ raised = "APIError"
           => /\ navCalls' = navCalls
              /\ synthCalls' = synthCalls
              /\ result' = result ]_vars
    /\ [][ (raised # "APIError" /\ raised' = "APIError")
           => navCalls' + synthCalls' = navCalls + synthCalls + 1 ]_vars

C9_Witness ==
    /\ raised = "APIError"
    /\ response.kind = "unavailable"
    /\ navCalls = 2
    /\ extracted_pieces # <<>>

RECURSIVE Subtree(_)
\* The nodes reachable from n through children.
Subtree(n) ==
    {n} \cup UNION {Subtree(NodeOf(n).children[i]) : i \in DOMAIN NodeOf(n).children}

\* C10: every step leaves the cursor where it is, or moves it to a direct
\* child of the current node, or to the parent of the current node; the
\* cursor is always a node reachable from the root.
C10_CursorMovesAlongEdges ==
    /\ [](current_node \in Subtree(index.root))
    /\ [][ \/ current_node' = current_node
           \/ /\ NodeOf(current_node').parent = Some(current_node)
              /\ \E i \in DOMAIN NodeOf(current_node).children :
                    NodeOf(current_node).children[i] = current_node'
           \/ NodeOf(current_node).parent = Some(current_node')
         ]_vars

C10_Witness ==
    /\ index = SopIndex
    /\ NodeOf(current_node).id = "Policy"
    /\ NodeOf(current_node).level = 2
    /\ navigation_path = <<PathEntry("root"), PathEntry("Appendices"), PathEntry("Policy")>>

IsPrefix(a, b) == Len(a) <= Len(b) /\ SubSeq(b, 1, Len(a)) = a

\* C11: reasoning trace, navigation path, extracted pieces and sources only
\* grow at their end: each keeps its value before a step as a prefix, and the
\* step lines of the trace carry increasing step numbers.
C11_AppendOnlyInStepOrder ==
    /\ [][ /\ IsPrefix(reasoning_trace, reasoning_trace')
           /\ IsPrefix(navigation_path, navigation_path')
           /\ IsPrefix(extracted_pieces, extracted_pieces')
           /\ IsPrefix(sources, sources') ]_vars
    /\ [](\A i, j \in 1..Len(reasoning_trace) :
            (i < j /\ reasoning_trace[i][1] = "Step " /\ reasoning_trace[j][1] = "Step ")
                => reasoning_trace[i][2] < reasoning_trace[j][2])

C11_Witness ==
    /\ Len(reasoning_trace) = 3
    /\ Len(navigation_path) = 2
    /\ extracted_pieces = <<"fact", "fact">>
    /\ sources = <<<<"root", ": ", "Retail SOP">>, <<"Policy", ": ", "Policy">>>>

\* C12: the navigation path starts as the one entry root.id and each valid
\* DESCEND appends exactly the id of the child entered; after the replies
\* descend Policy, descend Markdown Rules, extract the leaf content, complete
\* and a synthesis text, the result has navigation_path [root, Policy,
\* Markdown Rules], sources ["Markdown Rules: Markdown Rules"] and an answer
\* that is neither empty nor the sentinel.
C12_PathOfDescendsAndScenario ==
    /\ navigation_path = <<<<"", NodeOf(index.root).id>>>>
    /\ [][ (Replied("descend") /\ response'.target_section # None
              /\ response'.target_section[1] \in DirectChildIds(current_node))
           => /\ navigation_path' =
                    Append(navigation_path, <<"", response'.target_section[1]>>)
              /\ NodeOf(current_node').id = response'.target_section[1]
              /\ NodeOf(current_node').parent = Some(current_node) ]_vars
    /\ []( ( /\ pc = "done"
             /\ oracle_log = <<ScenarioDescend("Policy"), ScenarioDescend("Markdown Rules"),
                               ScenarioExtract, ScenarioComplete,
                               [kind |-> "text", content |-> "answer"]>> )
           => /\ result[1].navigation_path =
                    <<<<"", "root">>, <<"", "Policy">>, <<"", "Markdown Rules">>>>
              /\ result[1].sources = <<<<"Markdown Rules", ": ", "Markdown Rules">>>>
              /\ result[1].answer = "answer"
              /\ result[1].answer \notin {"", Sentinel} )

C12_Witness ==
    /\ pc = "done"
    /\ oracle_log = <<ScenarioDescend("Policy"), ScenarioDescend("Markdown Rules"),
                      ScenarioExtract, ScenarioComplete,
                      [kind |-> "text", content |-> "answer"]>>
    /\ Len(reasoning_trace) = 4

\* The step being taken applies a decision that cannot move the cursor: a
\* DESCEND to no direct child of the current node, or a BACKTRACK at the root.
NoOpStep ==
    \/ /\ Replied("descend")
       /\ \/ response'.target_section = None
          \/ response'.target_section = Some("")
          \/ response'.target_section[1] \notin DirectChildIds(current_node)
    \/ /\ Replied("backtrack")
       /\ current_node = index.root

\* The step being taken applies, a second time in a row, the no-op decision
\* that the step before it applied at the same node.
RepeatedNoOpStep ==
    /\ NoOpStep
    /\ response' = response
    /\ response.action = Some("descend") =>
            reasoning_trace[Len(reasoning_trace)][1] = "  -> Invalid section '"

\* C13 as stated: an invalid DESCEND or a BACKTRACK at the root, applied to
\* the state a first application left, gives back the same cursor, navigation
\* path, extracted pieces, sources and step count.
C13_NoOpKeepsStateAndStepCount ==
    [][ RepeatedNoOpStep => UNCHANGED <<current_node, navigation_path,
                                        extracted_pieces, sources, step>> ]_vars

\* C13 as amended: such an application gives back the same cursor, navigation
\* path, extracted pieces and sources; the reasoning trace grows and the step
\* count goes up by one.
C13_NoOpKeepsStateButUsesAStep ==
    [][ RepeatedNoOpStep =>
            /\ UNCHANGED <<current_node, navigation_path, extracted_pieces, sources>>
            /\ step' = step + 1
            /\ Len(reasoning_trace') > Len(reasoning_trace) ]_vars

C13_Witness ==
    /\ index = SopIndex
    /\ navCalls = 3
    /\ step = 3
    /\ navigation_path = <<PathEntry("root"), PathEntry("Policy")>>
    /\ Len(reasoning_trace) = 5
    /\ reasoning_trace[3] = reasoning_trace[5]
    /\ reasoning_trace[3][2] = "Policy"

\* C14: in the index a builder returns, every node reachable from the root
\* through children is the value of nodes_by_id at its id, and every value of
\* nodes_by_id is reachable from the root, whatever ids the input uses.
C14_NodesByIdConsistentWithTree ==
    pc = "built" =>
        /\ \A n \in Subtree(index.root) :
              /\ NodeOf(n).id \in DOMAIN index.nodes_by_id
              /\ index.nodes_by_id[NodeOf(n).id] = n
        /\ \A i \in DOMAIN index.nodes_by_id :
              index.nodes_by_id[i] \in Subtree(index.root)

\* C15: no step of query changes the DocumentIndex: its root, every node's
\* id, title, content, level, parent and children, its metadata and its
\* nodes_by_id stay what they were when query was called.
C15_QueryLeavesIndexAlone ==
    /\ [][ /\ index'.root = index.root
           /\ index'.metadata = index.metadata
           /\ index'.nodes_by_id = index.nodes_by_id
           /\ DOMAIN index'.nodes = DOMAIN index.nodes
           /\ \A n \in DOMAIN index.nodes : index'.nodes[n] = index.nodes[n] ]_vars
    /\ [](index \in Indexes)

C15_Witness ==
    /\ index = SopIndex
    /\ pc = "done"
    /\ navigation_path = <<PathEntry("root"), PathEntry("Policy"), UpMarker(index.root)>>
    /\ Len(extracted_pieces) = 1

\* What a call of query(index, q, max) comes to when nothing runs beside it
\* and the oracle gives the replies of log in order: the decision applied to
\* the locals st of that call.
LoneApply(st, d) ==
    LET line == StepLine(st.step, d)
        moved == [st EXCEPT !.i = @ + 1, !.decision = d,
                            !.step = IF d.action = "complete" THEN @ ELSE @ + 1,
                            !.broke = (d.action = "complete")]
    IN CASE d.action = "descend" ->
              IF ValidTarget(st.cur, d.target_section)
              THEN [moved EXCEPT !.cur = Child(st.cur, d.target_section),
                                 !.path = Append(@, PathEntry(d.target_section[1])),
                                 !.trace = Append(@, line)]
              ELSE [moved EXCEPT !.trace = @ \o <<line, InvalidLine(d)>>]
         [] d.action = "extract" ->
              IF Truthy(d.extracted_info)
              THEN [moved EXCEPT !.trace = Append(@, line),
                                 !.pieces = Append(@, d.extracted_info[1]),
                                 !.sources = Append(@, SourceLabel(st.cur))]
              ELSE [moved EXCEPT !.trace = Append(@, line)]
         [] d.action = "backtrack" ->
              IF NodeOf(st.cur).parent # None
              THEN [moved EXCEPT !.cur = NodeOf(st.cur).parent[1],
                                 !.path = Append(@, UpMarker(NodeOf(st.cur).parent[1])),
                                 !.trace = Append(@, line)]
              ELSE [moved EXCEPT !.trace = Append(@, line)]
         [] d.action = "complete" -> [moved EXCEPT !.trace = Append(@, line)]

LoneResult(st, answer) ==
    Some([answer |-> answer,
          sources |-> st.sources,
          confidence |-> IF st.pieces # <<>> THEN st.decision.confidence ELSE 0,
          navigation_path |-> st.path,
          reasoning_trace |-> st.trace])

LoneSynthesis(log, st) ==
    IF st.pieces = <<>>
    THEN [raised |-> "none", result |-> LoneResult(st, Sentinel)]
    ELSE IF st.i > Len(log)
    THEN [raised |-> "pending", result |-> None]
    ELSE IF log[st.i].kind = "unavailable"
    THEN [raised |-> "APIError", result |-> None]
    ELSE [raised |-> "none", result |-> LoneResult(st, log[st.i].content)]

RECURSIVE LoneRun(_, _, _)
LoneRun(max, log, st) ==
    IF st.broke \/ st.step >= max
    THEN LoneSynthesis(log, st)
    ELSE IF st.i > Len(log)
    THEN [raised |-> "pending", result |-> None]
    ELSE LET got == GetNavigationDecision(log[st.i]) IN
         IF got.raises # "none"
         THEN [raised |-> got.raises, result |-> None]
         ELSE LoneRun(max, log, LoneApply(st, got.decision))

LoneQuery(max, log) ==
    LoneRun(max, log, [i |-> 1, cur |-> index.root, path |-> <<PathEntry("root")>>,
                       trace |-> <<>>, pieces |-> <<>>, sources |-> <<>>, step |-> 0,
                       decision |-> Unbound, broke |-> FALSE])

Finished(f) == f.pc \in {"done", "raised"}

SameAsAlone(f) ==
    Finished(f) =>
        LoneQuery(f.max_steps, f.oracle_log) = [raised |-> f.raised, result |-> f.result]

\* C16: two calls of query on one index, interleaved in any way, each end as
\* the same call would have ended alone with the same oracle replies (the
\* same result, or the same exception).
C16_ConcurrentQueriesAsAlone ==
    running # 0 => SameAsAlone(Frame) /\ SameAsAlone(other[1])

\* Both calls returned, with evidence from different places.
C16_Witness ==
    /\ running = 2
    /\ pc = "done"
    /\ other[1].pc = "done"
    /\ result[1].sources # <<>>
    /\ other[1].result[1].sources # <<>>
    /\ result[1].sources # other[1].result[1].sources
    /\ result[1].navigation_path # other[1].result[1].navigation_path


\* A navigate call of the running query came back with a JSON object.
GotJson ==
    /\ navCalls' = navCalls + 1
    /\ response'.kind = "json"

\* C17: a reply without a confidence field gives a NavigationDecision whose
\* confidence is 0.0.
C17_OmittedConfidenceIsZero ==
    [][ (GotJson /\ response'.confidence = None /\ pc' # "raised")
        => decision'.confidence = 0 ]_vars

\* C18: a reply whose confidence is outside [0.0, 1.0] is a parse failure, so
\* the confidence of every decision applied and of every QueryResult is
\* within [0.0, 1.0] (0..10 in tenths).
C18_ConfidenceWithinRange ==
    /\ (response.kind = "json" /\ response.confidence # None
          /\ response.confidence[1] \notin 0..10)
       => raised \in {"JSONDecodeError", "ValueError"}
    /\ decision.confidence \in 0..10
    /\ result # None => result[1].confidence \in 0..10

UnknownAction(reply) ==
    /\ reply.kind = "json"
    /\ reply.action # None
    /\ reply.action[1] \notin NavigationActions

\* C19: a reply whose action is present and is none of descend, extract,
\* backtrack, complete makes _get_navigation_decision raise (ValueError): no
\* decision is made of it, cursor, path, trace, pieces, sources and step
\* stay as they were, and nothing runs after it.
C19_UnknownActionRaisesAtParse ==
    /\ [][ (navCalls' = navCalls + 1 /\ UnknownAction(response'))
           => /\ pc' = "raised"
              /\ raised' = "ValueError"
              /\ UNCHANGED <<decision, current_node, navigation_path,
                             reasoning_trace, extracted_pieces, sources, step,
                             result, synthCalls, index>> ]_vars
    /\ [](raised = "ValueError" => UnknownAction(response) /\ result = None)
    /\ [][raised # "ValueError"]_vars
    /\ [](decision.action \in NavigationActions \cup {"unbound"})

\* An unknown action arrived at the second step, after evidence was taken.
C19_Witness ==
    /\ raised = "ValueError"
    /\ response.action = Some("jump")
    /\ navCalls = 2
    /\ extracted_pieces # <<>>

\* C20: query comes to an end whatever the tree, max_steps and the decisions:
\* unless an oracle call or a parse raises, the loop is left at a COMPLETE
\* decision or with the step count at max_steps, and a QueryResult is
\* returned; with max_steps = 0 no navigate call is made.
C20_QueryTerminates ==
    /\ <>(pc = "done" \/ raised # "none")
    /\ [](pc \in {"synthesize", "done"}
            => decision.action = "complete" \/ step = max_steps)
    /\ [](pc = "done" => result # None /\ raised = "none")
    /\ [](max_steps = 0 => navCalls = 0)

\* The budget was used up by invalid descends alone and a result returned.
C20_Witness ==
    /\ pc = "done"
    /\ max_steps = 3
    /\ step = max_steps
    /\ Len(reasoning_trace) = 2 * max_steps
    /\ current_node = index.root
    /\ result[1].answer = Sentinel


\* The navigate calls of the query that came back with a decision.
Decisions ==
    IF raised \in {"JSONDecodeError", "ValueError"} \/ (raised = "APIError" /\ synthCalls = 0)
    THEN navCalls - 1
    ELSE navCalls

\* The decision is a DESCEND whose target is not the id of a child of n.
InvalidDescend(d, n) ==
    /\ d.action = "descend"
    /\ d.target_section = None \/ d.target_section[1] \notin DirectChildIds(n)

\* C21: a step appends one trace line with its number (from 1), its action
\* and its reasoning, and a second line exactly when it was an invalid
\* DESCEND; n decisions leave between n and 2n lines; a query whose first
\* decision is COMPLETE returns a one-line trace, no sources, the sentinel
\* answer and confidence 0.0.
C21_TraceLinesPerStep ==
    /\ [][ (navCalls' = navCalls + 1 /\ pc' # "raised")
           => LET line == <<"Step ", navCalls', ": ", decision'.action, " - ",
                            decision'.reasoning>>
              IN IF InvalidDescend(decision', current_node)
                 THEN /\ Len(reasoning_trace') = Len(reasoning_trace) + 2
                      /\ SubSeq(reasoning_trace', 1, Len(reasoning_trace)) = reasoning_trace
                      /\ reasoning_trace'[Len(reasoning_trace) + 1] = line
                      /\ reasoning_trace'[Len(reasoning_trace) + 2][1] = "  -> Invalid section '"
                 ELSE reasoning_trace' = Append(reasoning_trace, line) ]_vars
    /\ [][ navCalls' = navCalls \/ pc' = "raised"
           => reasoning_trace' = reasoning_trace ]_vars
    /\ [](Decisions <= Len(reasoning_trace) /\ Len(reasoning_trace) <= 2 * Decisions)
    /\ []((pc = "done" /\ navCalls = 1 /\ decision.action = "complete")
            => /\ Len(result[1].reasoning_trace) = 1
               /\ result[1].sources = <<>>
               /\ extracted_pieces = <<>>
               /\ result[1].answer = Sentinel
               /\ result[1].confidence = 0)

\* Two invalid descends, then COMPLETE: five lines for three steps.
C21_Witness ==
    /\ pc = "done"
    /\ navCalls = 3
    /\ decision.action = "complete"
    /\ Len(result[1].reasoning_trace) = 5

\* C22: an EXTRACT step leaves cursor and path alone and, with absent or
\* empty extracted_info, pieces and sources too; DESCEND, BACKTRACK and
\* COMPLETE steps leave pieces and sources alone.
C22_ActionsKeepToTheirPart ==
    /\ [][ Decided("extract")
           => /\ UNCHANGED <<current_node, navigation_path>>
              /\ response'.extracted_info \in {None, Some("")}
                    => UNCHANGED <<extracted_pieces, sources>> ]_vars
    /\ [][ (Decided("descend") \/ Decided("backtrack") \/ Decided("complete"))
           => UNCHANGED <<extracted_pieces, sources>> ]_vars

\* A COMPLETE that carried extracted_info, below the root, after an extraction.
C22_Witness ==
    /\ pc = "synthesize"
    /\ decision.action = "complete"
    /\ decision.extracted_info = Some("fact")
    /\ Len(extracted_pieces) = 1
    /\ current_node # index.root

RECURSIVE Depth(_)
\* The number of parent links from n up to the root.
Depth(n) == IF NodeOf(n).parent = None THEN 0 ELSE 1 + Depth(NodeOf(n).parent[1])

\* The positions of the path whose entry was written with marker m.
EntriesMarked(m) == {i \in 2..Len(navigation_path) : navigation_path[i][1] = m}

\* C23: the cursor is the node whose id the last entry of the navigation
\* path carries (the start entry, a descend entry, or the id after an
\* up-marker), and its depth is the number of descend entries less the
\* number of up-marker entries.
C23_CursorIsLastPathEntry ==
    /\ navigation_path[1] = <<"", "root">>
    /\ NodeOf(current_node).id = navigation_path[Len(navigation_path)][2]
    /\ Depth(current_node) = Cardinality(EntriesMarked("")) - Cardinality(EntriesMarked("[up]"))

\* Down, up and down again into another branch.
C23_Witness ==
    /\ Len(navigation_path) = 4
    /\ navigation_path[3][1] = "[up]"
    /\ navigation_path[4][1] = ""
    /\ navigation_path[2] # navigation_path[4]
    /\ Depth(current_node) = 1

\* C24: a JSON reply without an action field is parsed as a COMPLETE
\* decision: the loop ends at that step and query goes to the synthesis.
C24_AbsentActionIsComplete ==
    /\ [][ (GotJson /\ response'.action = None)
           => /\ decision'.action = "complete"
              /\ pc' = "synthesize"
              /\ raised' = "none"
              /\ step' = step
              /\ UNCHANGED <<current_node, navigation_path, extracted_pieces, sources>> ]_vars
    /\ []((response.kind = "json" /\ response.action = None)
            => decision.action = "complete" /\ pc # "loop")

\* The loop was left at the second step of three by a reply without action.
C24_Witness ==
    /\ response.kind = "json"
    /\ response.action = None
    /\ pc = "done"
    /\ navCalls = 2
    /\ max_steps = 3
    /\ extracted_pieces # <<>>

====
